---- MODULE Spec2Model ----
(***************************************************************************)
(* Model of @boringnode/transmit: the Transmit orchestrator                *)
(* (src/src/transmit.ts) of several instances sharing one message bus,     *)
(* together with the stream manager it delegates to.                       *)
(*                                                                         *)
(* The orchestrator is translated from src/src/transmit.ts.  The stream    *)
(* manager, the stream sink and the bus are not part of the sources at     *)
(* hand; they are modelled from their contract in spec.md (sections 3,     *)
(* 4.2, 5, 6 and 7).                                                       *)
(***************************************************************************)
EXTENDS Integers, Sequences, FiniteSets, Bags, TLC

\* ------------------------------------------------------------------------
\* Bounds of the model
\* ------------------------------------------------------------------------
\* number of environment events (API calls, failing sinks, messages the
\* at-least-once bus delivers a second time) of the deployments with one
\* client, or with a ping interval
MaxCalls == 4
\* number of environment events of the deployments in which two clients are
\* served by one instance
MaxCallsLocal == 6

\* ------------------------------------------------------------------------
\* Universe
\* ------------------------------------------------------------------------
Instances == {"A", "B"}
Uids == {"u1", "u2"}
\* concrete channel names, as "/"-delimited segments
Channels == {<<"global">>, <<"chats", "5", "messages">>}
\* authorization patterns; a segment of ParamSegments is a named parameter
Patterns == {<<"chats", ":id", "messages">>}
ParamSegments == {":id"}
\* payload arguments of broadcast: an object, the number 0, null, NaN, and
\* "undefined" for an omitted one
Payloads == {"{x:1}", "0", "null", "NaN", "undefined"}
\* the payloads JavaScript takes for false in (!payload)
Falsy == {"undefined", "null", "0", "NaN", "false", "''"}
EmptyObject == "{}"
\* payload arguments of broadcastExcept
ExceptPayloads == {"{x:1}"}
\* what the authorization predicate of a matching pattern answers
Verdicts == {"true", "false", "reject"}
\* The deployments explored: which instances are constructed with a
\* transport, which with a ping interval, which of them take the calls about
\* clients and authorization, which the broadcast calls (the others only
\* handle what the bus hands them), which the application shuts down, on
\* which sinks can fail, whether the bus hands a message over more than once,
\* which clients connect, which channels are used, which payloads are
\* broadcast, and how many calls are made.
Setup(transports, pings, cs, bs, ss, fs, dup, us, chs, ps, n) ==
  [transport |-> transports, pingInterval |-> pings, callers |-> cs, publishers |-> bs,
   stoppers |-> ss, faulty |-> fs, duplicates |-> dup, clients |-> us, channels |-> chs,
   payloads |-> ps, budget |-> n]
\* every instance shares the bus, which can hand a message over twice, and
\* takes calls, none has a ping interval, B is shut down; one client, which may connect to any of them, one channel,
\* and an object for a payload
Shared(n) ==
  Setup(Instances, {}, Instances, Instances, {"B"}, {}, TRUE, {"u1"},
        {<<"chats", "5", "messages">>}, {"{x:1}"}, n)
\* instance A is constructed without a transport and without a ping interval,
\* and alone takes calls, of every client on every channel, with an object
\* for a payload; sinks can fail
Alone(n) ==
  Setup(Instances \ {"A"}, {}, {"A"}, {"A"}, {}, {"A"}, FALSE, Uids, Channels,
        {"{x:1}"}, n)
\* instance A is constructed without a transport and with a ping interval,
\* alone takes calls, of every client on one channel, with null, NaN or
\* nothing for a payload, and is shut down; sinks can fail
Keepalive(n) ==
  Setup(Instances \ {"A"}, {"A"}, {"A"}, {"A"}, {"A"}, {"A"}, FALSE, Uids,
        {<<"global">>}, {"null", "NaN", "undefined"}, n)
\* every instance shares the bus, which hands each message over once; every
\* client connects to B, on which sinks can fail, and A broadcasts, on one
\* channel
Fanned(n) ==
  Setup(Instances, {}, {"B"}, {"A"}, {}, {"B"}, FALSE, Uids, {<<"global">>}, {"{x:1}"}, n)
\* the same, but B itself broadcasts, the number 0
Served(n) ==
  Setup(Instances, {}, {"B"}, {"B"}, {}, {"B"}, FALSE, Uids, {<<"global">>}, {"0"}, n)
Setups ==
  {Shared(MaxCalls), Alone(MaxCallsLocal), Keepalive(MaxCalls), Fanned(MaxCallsLocal),
   Served(MaxCallsLocal)}

TransportMessageType == [Broadcast |-> 1, Subscribe |-> 2, Unsubscribe |-> 3]

\* the reserved channel of the keepalive, line 240
PingChannel == <<"$$transmit/ping">>

NoUid == "-"
NoChannel == <<>>
NoPayload == "-"

\* ------------------------------------------------------------------------
\* State
\* ------------------------------------------------------------------------
VARIABLES
  hasBus,    \* hasBus[i]: instance i was constructed with a transport (#bus # null)
  interval,  \* interval[i]: the ping timer of i is set and was not cleared
  closing,   \* closing[i]: number of shutdown() calls of i awaiting the disconnect
  closed,    \* closed[i]: number of shutdown() calls of i that completed
  exited,    \* the instances whose process an uncaught exception has ended
  disconnects, \* disconnects[i]: number of #bus.disconnect() calls i made
  streams,   \* streams[i]: uids with a live stream in i's stream manager
  subs,      \* subs[i][u]: subscription set of the stream of u on i
  index,     \* index[i][c]: channel index of i, the uids subscribed to c
  secured,   \* secured[i]: authorization patterns registered on i
  pending,   \* pending[i]: bag of the subscribe calls of i awaiting their predicate
  broken,    \* broken[i]: live streams of i whose sink fails on write
  raising,   \* raising[i]: those of broken[i] whose failed write writeMessage throws
  doomed,    \* doomed[i]: live streams of i a write to which has failed: their
             \* disconnect path is triggered and has not run yet
  bus,       \* bus[i]: bag of messages the bus still has to hand to i
  written,   \* written[i][u]: the writeMessage calls on the stream of u on i, in order
  emitted,   \* lifecycle events emitted by the last step
  sent,      \* messages handed to #bus.publish by the last step
  ret,       \* the operation the last step ran, and what it returned
  scope,     \* the configuration of this behaviour: who has a ping interval, who
             \* takes which API calls, about what, whose sinks can fail, and
             \* how many calls are made
  ncalls,    \* number of environment events so far
  nbroadcasts, \* number of broadcast/broadcastExcept calls made so far
  ndups      \* number of duplicate bus deliveries so far

vars == <<hasBus, interval, closing, closed, exited, disconnects, streams, subs, index, secured, pending,
          broken, raising, doomed, bus, written, emitted, sent, ret, scope, ncalls, nbroadcasts, ndups>>

lifeVars == <<interval, closing, closed, disconnects>>

managerVars == <<streams, subs, index>>

sinkVars == <<broken, raising>>

\* ------------------------------------------------------------------------
\* Helpers
\* ------------------------------------------------------------------------
\* the senderUid argument of #broadcastLocally: a uid, a list of uids or undefined
SenderUid(isArray, u, us) == [isArray |-> isArray, uid |-> u, uids |-> us]
Undefined == SenderUid(FALSE, "undefined", {})
\* the senderUid arguments tried: one uid, or the list of no, of one or of all uids
SenderUids ==
  {SenderUid(FALSE, "u1", {}), SenderUid(TRUE, "undefined", {}),
   SenderUid(TRUE, "undefined", {"u2"}), SenderUid(TRUE, "undefined", Uids)}

\* the history name of a broadcast call: the instance it was made on and its number
Call(i, n) == [inst |-> i, n |-> n]
NoCall == Call("-", 0)

\* ret: the operation, the instance it ran on, its uid and channel arguments,
\* what it returned (of a call that returns a promise: what the promise
\* settles to, or "awaiting" while it awaits), its senderUid argument (broadcastExcept), what the
\* authorization predicate answered to it (subscribe), its payload argument as
\* passed (broadcast), and the payload and the broadcast call of the message
\* it fanned out
RetFull(op, i, u, c, v, a, verdict) ==
  [op |-> op, inst |-> i, uid |-> u, channel |-> c, value |-> v, arg |-> a,
   verdict |-> verdict, given |-> "-", payload |-> "-", call |-> NoCall]
RetArg(op, i, u, c, v, a) == RetFull(op, i, u, c, v, a, "none")
Ret(op, i, u, c, v) == RetArg(op, i, u, c, v, Undefined)
RetFanOut(op, i, c, p, k, a) ==
  [RetArg(op, i, "-", c, "void", a) EXCEPT !.payload = p, !.call = k]

Event(e, u, c, p) == [event |-> e, uid |-> u, channel |-> c, payload |-> p]

\* TransmitMessage, lines 26-41.  The payload is a record of one shape for the
\* three types: data is the Broadcastable of a Broadcast, uid the uid of a
\* Subscribe/Unsubscribe.  call is a history field: the broadcast call the
\* message stems from.
BroadcastMessage(c, p, k) ==
  [type |-> TransportMessageType.Broadcast, channel |-> c,
   payload |-> [uid |-> NoUid, data |-> p], call |-> k]
SubscribeMessage(c, u) ==
  [type |-> TransportMessageType.Subscribe, channel |-> c,
   payload |-> [uid |-> u, data |-> NoPayload], call |-> NoCall]
UnsubscribeMessage(c, u) ==
  [type |-> TransportMessageType.Unsubscribe, channel |-> c,
   payload |-> [uid |-> u, data |-> NoPayload], call |-> NoCall]

\* what a stream sink is written: { data: { channel, payload } }.  failed is
\* the outcome of the write, set by writeMessage.
DataMessage(c, p, k) == [channel |-> c, payload |-> p, call |-> k, failed |-> FALSE]

\* the process of instance i runs: nothing happens in one that has exited
alive(i) == i \notin exited

\* instance i may take one more API call
canCall(i) ==
  /\ alive(i)
  /\ i \in scope.callers
  /\ ncalls < scope.budget

\* instance i may take one more API call about uid u
canCallFor(i, u) == canCall(i) /\ u \in scope.clients

\* instance i may take one more broadcast call on channel c
canBroadcastOn(i, c) ==
  /\ alive(i)
  /\ i \in scope.publishers
  /\ ncalls < scope.budget
  /\ c \in scope.channels

\* this.#bus?.publish(...): nothing is published without a transport
busPublish(i, out) == IF hasBus[i] THEN out ELSE <<>>

RECURSIVE SeqToBag(_)
SeqToBag(s) == IF s = <<>> THEN EmptyBag ELSE SetToBag({Head(s)}) (+) SeqToBag(Tail(s))

\* the bus adapter of i is connected: it has a transport and did not disconnect
connected(i) == hasBus[i] /\ disconnects[i] = 0

\* The bus hands a message published through a connected adapter to every
\* other instance whose adapter is connected to the transport channel.
busAfterPublish(b, i, out) ==
  [j \in Instances |->
     IF j # i /\ connected(i) /\ connected(j) THEN b[j] (+) SeqToBag(out) ELSE b[j]]

\* ------------------------------------------------------------------------
\* Channel pattern matcher (spec.md 4.1)
\* ------------------------------------------------------------------------
matchPattern(pattern, channel) ==
  /\ Len(pattern) = Len(channel)
  /\ \A k \in 1..Len(pattern) : pattern[k] \in ParamSegments \/ pattern[k] = channel[k]

matchingPatterns(i, channel) == {p \in secured[i] : matchPattern(p, channel)}

\* deny-by-default: every channel waits for a predicate
needsAuthorization_always(i, channel) == TRUE

\* allow-by-default: the predicate is asked only when a registered pattern matches
needsAuthorization(i, channel) == matchingPatterns(i, channel) # {}

\* ------------------------------------------------------------------------
\* Stream manager (spec.md 4.2)
\* ------------------------------------------------------------------------
findByChannel(i, channel) == index[i][channel]

getAllSubscribers(i) == {<<u, subs[i][u]>> : u \in streams[i]}

\* the index and the subscription sets after the stream of u joined channel c
managerSubscribed(i, u, c) ==
  /\ subs' = [subs EXCEPT ![i][u] = @ \cup {c}]
  /\ index' = [index EXCEPT ![i][c] = @ \cup {u}]
  /\ streams' = streams

\* an unsubscribe that updates the index and forgets the subscription set
managerUnsubscribed_indexOnly(i, u, c) ==
  /\ subs' = subs
  /\ index' = [index EXCEPT ![i][c] = @ \ {u}]
  /\ streams' = streams

managerUnsubscribed(i, u, c) ==
  /\ subs' = [subs EXCEPT ![i][u] = @ \ {c}]
  /\ index' = [index EXCEPT ![i][c] = @ \ {u}]
  /\ streams' = streams

\* a removal that leaves the channel index entries of the stream behind
managerRemoved_keepIndex(i, u) ==
  /\ streams' = [streams EXCEPT ![i] = @ \ {u}]
  /\ subs' = [subs EXCEPT ![i][u] = {}]
  /\ index' = index

managerRemoved(i, u) ==
  /\ streams' = [streams EXCEPT ![i] = @ \ {u}]
  /\ subs' = [subs EXCEPT ![i][u] = {}]
  /\ index' = [index EXCEPT ![i] = [c \in Channels |-> @[c] \ {u}]]

\* Stream.writeMessage: the write is recorded with its outcome
writeMessage(log, sinkFails, message) == Append(log, [message EXCEPT !.failed = sinkFails])

\* whether writeMessage on the stream throws: a failed sink write is either
\* caught inside the stream or thrown to the caller of writeMessage
writeThrows(stream, throwers) == stream \in throwers

\* The sinks of instance i are now w: every stream a write to which has
\* failed has its disconnect path triggered, which Disconnect then runs.
sinksWritten(i, w) ==
  /\ written' = [written EXCEPT ![i] = w]
  /\ doomed' = [doomed EXCEPT ![i] =
                  @ \cup {u \in broken[i] : Len(w[u]) > Len(written[i][u])}]

\* what a loop over streams leaves: the sinks, and whether a write threw,
\* which ends the loop
Loop(w, threw) == [sinks |-> w, threw |-> threw]

\* what a call returns whose loop ended that way
returned(loop) == IF loop.threw THEN "throws" ELSE "void"

\* ------------------------------------------------------------------------
\* Init
\* ------------------------------------------------------------------------
InitOf(setup) ==
  /\ hasBus = [i \in Instances |-> i \in setup.transport]
  /\ interval = [i \in Instances |-> i \in setup.pingInterval]
  /\ closing = [i \in Instances |-> 0]
  /\ closed = [i \in Instances |-> 0]
  /\ exited = {}
  /\ disconnects = [i \in Instances |-> 0]
  /\ scope = [pingInterval |-> setup.pingInterval,
              callers |-> setup.callers, publishers |-> setup.publishers,
              stoppers |-> setup.stoppers, faulty |-> setup.faulty,
              duplicates |-> setup.duplicates, clients |-> setup.clients, channels |-> setup.channels,
              payloads |-> setup.payloads,
              budget |-> setup.budget]
  /\ streams = [i \in Instances |-> {}]
  /\ subs = [i \in Instances |-> [u \in Uids |-> {}]]
  /\ index = [i \in Instances |-> [c \in Channels |-> {}]]
  /\ secured = [i \in Instances |-> {}]
  /\ pending = [i \in Instances |-> EmptyBag]
  /\ broken = [i \in Instances |-> {}]
  /\ raising = [i \in Instances |-> {}]
  /\ doomed = [i \in Instances |-> {}]
  /\ bus = [i \in Instances |-> EmptyBag]
  /\ written = [i \in Instances |-> [u \in Uids |-> <<>>]]
  /\ emitted = <<>>
  /\ sent = <<>>
  /\ ret = Ret("constructor", "-", NoUid, NoChannel, "void")
  /\ ncalls = 0
  /\ nbroadcasts = 0
  /\ ndups = 0

Init == \E setup \in Setups : InitOf(setup)

\* ------------------------------------------------------------------------
\* createStream, lines 111-127
\* ------------------------------------------------------------------------
\* a createStream that emits connect before the manager has registered the stream
CreateStream_emitFirst(i, u) ==
  /\ canCallFor(i, u)
  /\ ncalls' = ncalls + 1
  /\ emitted' = <<Event("connect", u, NoChannel, NoPayload)>>
  /\ IF u \in streams[i]
     THEN /\ ret' = Ret("createStream", i, u, NoChannel, "DuplicateStream")
          /\ UNCHANGED managerVars
     ELSE /\ streams' = [streams EXCEPT ![i] = @ \cup {u}]
          /\ subs' = [subs EXCEPT ![i][u] = {}]
          /\ index' = index
          /\ ret' = Ret("createStream", i, u, NoChannel, "stream")
  /\ sent' = <<>>
  /\ UNCHANGED <<lifeVars, hasBus, scope, exited, secured, pending, sinkVars, doomed, bus, written, nbroadcasts, ndups>>

CreateStream(i, u) ==
  /\ canCallFor(i, u)
  /\ ncalls' = ncalls + 1
  /\ IF u \in streams[i]
     THEN /\ ret' = Ret("createStream", i, u, NoChannel, "DuplicateStream")
          /\ emitted' = <<>>
          /\ UNCHANGED managerVars
     ELSE /\ streams' = [streams EXCEPT ![i] = @ \cup {u}]
          /\ subs' = [subs EXCEPT ![i][u] = {}]
          /\ index' = index
          /\ emitted' = <<Event("connect", u, NoChannel, NoPayload)>>
          /\ ret' = Ret("createStream", i, u, NoChannel, "stream")
  /\ sent' = <<>>
  /\ UNCHANGED <<lifeVars, hasBus, scope, exited, secured, pending, sinkVars, doomed, bus, written, nbroadcasts, ndups>>

\* a subscribe call of uid u on channel c that awaits its predicate;
\* overtaken: a disconnect of u has completed since the call was made
Awaiting(u, c, o) == [uid |-> u, channel |-> c, overtaken |-> o]

\* the awaiting calls once a disconnect of u has completed
overtaken(calls, u) ==
  LET late(p) == [p EXCEPT !.overtaken = TRUE]
      after == {IF p.uid = u THEN late(p) ELSE p : p \in BagToSet(calls)}
  IN [q \in after |->
        IF q.uid = u
        THEN CopiesIn(q, calls) + CopiesIn([q EXCEPT !.overtaken = FALSE], calls)
        ELSE CopiesIn(q, calls)]

\* the disconnect observer installed by createStream, lines 120-125: it runs
\* when the client goes away and when a failed write has closed the sink
Disconnect(i, u) ==
  /\ alive(i)
  /\ u \in streams[i]
  /\ emitted' = <<Event("disconnect", u, NoChannel, NoPayload)>>
  /\ managerRemoved(i, u)
  /\ broken' = [broken EXCEPT ![i] = @ \ {u}]
  /\ raising' = [raising EXCEPT ![i] = @ \ {u}]
  /\ doomed' = [doomed EXCEPT ![i] = @ \ {u}]
  /\ pending' = [pending EXCEPT ![i] = overtaken(@, u)]
  /\ sent' = <<>>
  /\ ret' = Ret("disconnect", i, u, NoChannel, "void")
  /\ UNCHANGED <<lifeVars, hasBus, scope, exited, secured, bus, written, ncalls, nbroadcasts, ndups>>

\* ------------------------------------------------------------------------
\* authorize, lines 129-134
\* ------------------------------------------------------------------------
Authorize(i, pattern) ==
  /\ canCall(i)
  /\ \E c \in scope.channels : matchPattern(pattern, c)
  /\ ncalls' = ncalls + 1
  /\ secured' = [secured EXCEPT ![i] = @ \cup {pattern}]
  /\ emitted' = <<>>
  /\ sent' = <<>>
  /\ ret' = Ret("authorize", i, NoUid, pattern, "void")
  /\ UNCHANGED <<lifeVars, hasBus, scope, exited, streams, subs, index, pending, sinkVars, doomed, bus, written,
                 nbroadcasts, ndups>>

\* ------------------------------------------------------------------------
\* subscribe, lines 143-160
\* ------------------------------------------------------------------------
\* onSubscribe, lines 146-158: one lifecycle event, one Subscribe message
onSubscribe(i, u, c) ==
  /\ emitted' = <<Event("subscribe", u, c, NoPayload)>>
  /\ sent' = busPublish(i, <<SubscribeMessage(c, u)>>)
  /\ bus' = busAfterPublish(bus, i, <<SubscribeMessage(c, u)>>)

\* the subscription is granted: indexed, then onSubscribe, then true
subscribeGranted(i, u, c, verdict) ==
  /\ managerSubscribed(i, u, c)
  /\ onSubscribe(i, u, c)
  /\ ret' = RetFull("subscribe", i, u, c, "true", Undefined, verdict)

subscribeRefused(i, u, c, verdict) ==
  /\ UNCHANGED managerVars
  /\ emitted' = <<>>
  /\ sent' = <<>>
  /\ bus' = bus
  /\ ret' = RetFull("subscribe", i, u, c, "false", Undefined, verdict)

\* the call, up to the point where it awaits the authorization predicate
Subscribe(i, u, c) ==
  /\ canCallFor(i, u)
  /\ c \in scope.channels
  /\ ncalls' = ncalls + 1
  /\ IF u \notin streams[i]
     THEN subscribeRefused(i, u, c, "none") /\ pending' = pending
     ELSE IF ~needsAuthorization(i, c)
     THEN subscribeGranted(i, u, c, "none") /\ pending' = pending
     ELSE /\ pending' = [pending EXCEPT ![i] = @ (+) SetToBag({Awaiting(u, c, FALSE)})]
          /\ UNCHANGED managerVars
          /\ emitted' = <<>>
          /\ sent' = <<>>
          /\ bus' = bus
          /\ ret' = Ret("subscribe", i, u, c, "awaiting")
  /\ UNCHANGED <<lifeVars, hasBus, scope, exited, secured, sinkVars, doomed, written, nbroadcasts, ndups>>

\* a subscribe that emits and publishes once the manager has answered, whatever
\* the answer
SubscribeResolve_notifyAlways(i, p, verdict) ==
  /\ alive(i)
  /\ BagIn(p, pending[i])
  /\ pending' = [pending EXCEPT ![i] = @ (-) SetToBag({p})]
  /\ IF verdict = "true" /\ p.uid \in streams[i]
     THEN subscribeGranted(i, p.uid, p.channel, verdict)
     ELSE /\ UNCHANGED managerVars
          /\ onSubscribe(i, p.uid, p.channel)
          /\ ret' = RetFull("subscribe", i, p.uid, p.channel, "false", Undefined, verdict)
  /\ UNCHANGED <<lifeVars, hasBus, scope, exited, secured, sinkVars, doomed, written, ncalls, nbroadcasts, ndups>>

\* a subscribe that looks for the stream before it awaits the predicate only
SubscribeResolve_noRecheck(i, p, verdict) ==
  /\ alive(i)
  /\ BagIn(p, pending[i])
  /\ pending' = [pending EXCEPT ![i] = @ (-) SetToBag({p})]
  /\ IF verdict = "true"
     THEN subscribeGranted(i, p.uid, p.channel, verdict)
     ELSE subscribeRefused(i, p.uid, p.channel, verdict)
  /\ UNCHANGED <<lifeVars, hasBus, scope, exited, secured, sinkVars, doomed, written, ncalls, nbroadcasts, ndups>>

\* the predicate answered: the rest of the call
SubscribeResolve(i, p, verdict) ==
  /\ alive(i)
  /\ BagIn(p, pending[i])
  /\ pending' = [pending EXCEPT ![i] = @ (-) SetToBag({p})]
  /\ IF verdict = "true" /\ p.uid \in streams[i]
     THEN subscribeGranted(i, p.uid, p.channel, verdict)
     ELSE subscribeRefused(i, p.uid, p.channel, verdict)
  /\ UNCHANGED <<lifeVars, hasBus, scope, exited, secured, sinkVars, doomed, written, ncalls, nbroadcasts, ndups>>

\* a replay that indexes the uid whether or not it has a stream here
subscribeLocally_noStream(i, u, c) == managerSubscribed(i, u, c)

\* #subscribeLocally, lines 136-141: skipAuthorization, no onSubscribe
subscribeLocally(i, u, c) ==
  IF u \in streams[i] THEN managerSubscribed(i, u, c) ELSE UNCHANGED managerVars

\* ------------------------------------------------------------------------
\* unsubscribe, lines 168-185
\* ------------------------------------------------------------------------
onUnsubscribe(i, u, c) ==
  /\ emitted' = <<Event("unsubscribe", u, c, NoPayload)>>
  /\ sent' = busPublish(i, <<UnsubscribeMessage(c, u)>>)
  /\ bus' = busAfterPublish(bus, i, <<UnsubscribeMessage(c, u)>>)

\* an unsubscribe that notifies whether or not a mapping was removed
Unsubscribe_notifyAlways(i, u, c) ==
  /\ canCallFor(i, u)
  /\ c \in scope.channels
  /\ ncalls' = ncalls + 1
  /\ onUnsubscribe(i, u, c)
  /\ IF u \in streams[i] /\ c \in subs[i][u]
     THEN /\ managerUnsubscribed(i, u, c)
          /\ ret' = Ret("unsubscribe", i, u, c, "true")
     ELSE /\ UNCHANGED managerVars
          /\ ret' = Ret("unsubscribe", i, u, c, "false")
  /\ UNCHANGED <<lifeVars, hasBus, scope, exited, secured, pending, sinkVars, doomed, written, nbroadcasts, ndups>>

Unsubscribe(i, u, c) ==
  /\ canCallFor(i, u)
  /\ c \in scope.channels
  /\ ncalls' = ncalls + 1
  /\ IF u \in streams[i] /\ c \in subs[i][u]
     THEN /\ managerUnsubscribed(i, u, c)
          /\ onUnsubscribe(i, u, c)
          /\ ret' = Ret("unsubscribe", i, u, c, "true")
     ELSE /\ UNCHANGED managerVars
          /\ emitted' = <<>>
          /\ sent' = <<>>
          /\ bus' = bus
          /\ ret' = Ret("unsubscribe", i, u, c, "false")
  /\ UNCHANGED <<lifeVars, hasBus, scope, exited, secured, pending, sinkVars, doomed, written, nbroadcasts, ndups>>

\* #unsubscribeLocally, lines 162-166: no onUnsubscribe
unsubscribeLocally(i, u, c) ==
  IF u \in streams[i] /\ c \in subs[i][u]
  THEN managerUnsubscribed(i, u, c)
  ELSE UNCHANGED managerVars

\* ------------------------------------------------------------------------
\* #broadcastLocally, lines 187-201
\* ------------------------------------------------------------------------
\* the orders in which a loop can visit the streams S the manager yields:
\* the order is the manager's, and nothing fixes it
RECURSIVE Orders(_)
Orders(S) ==
  IF S = {} THEN {<<>>}
  ELSE UNION {{<<u>> \o rest : rest \in Orders(S \ {u})} : u \in S}

\* lines 191-195
isExcluded(senderUid, uid) ==
  IF senderUid.isArray THEN uid \in senderUid.uids ELSE senderUid.uid = uid

\* the loop of lines 190-200 over the subscribers still to visit; w is the
\* sinks of the instance so far, failing the sinks whose write fails, throwers
\* those whose writeMessage throws: nothing in the loop catches, so a write
\* that throws ends it and the subscribers after it are not visited
RECURSIVE fanOut(_, _, _, _, _, _)
fanOut(w, subscribers, failing, throwers, senderUid, message) ==
  IF subscribers = <<>> THEN Loop(w, FALSE)
  ELSE LET subscriber == Head(subscribers)
           after == [w EXCEPT ![subscriber] =
                       writeMessage(@, subscriber \in failing, message)]
       IN IF isExcluded(senderUid, subscriber)
          THEN fanOut(w, Tail(subscribers), failing, throwers, senderUid, message)
          ELSE IF writeThrows(subscriber, throwers)
          THEN Loop(after, TRUE)
          ELSE fanOut(after, Tail(subscribers), failing, throwers, senderUid, message)

\* what #broadcastLocally(channel, payload, senderUid) leaves on instance i
\* when findByChannel yields the subscribers in that order
broadcastLocally(i, order, channel, payload, senderUid, call) ==
  fanOut(written[i], order, broken[i], raising[i], senderUid,
         DataMessage(channel, payload, call))

\* broadcastExcept, lines 203-205: what #broadcastLocally throws, it throws
BroadcastExcept(i, channel, payload, senderUid) ==
  /\ canBroadcastOn(i, channel)
  /\ payload \in scope.payloads
  /\ ncalls' = ncalls + 1
  /\ nbroadcasts' = nbroadcasts + 1
  /\ \E order \in Orders(findByChannel(i, channel)) :
       LET call == Call(i, nbroadcasts + 1)
           loop == broadcastLocally(i, order, channel, payload, senderUid, call)
       IN /\ sinksWritten(i, loop.sinks)
          /\ ret' = [RetFanOut("broadcastExcept", i, channel, payload, call, senderUid)
                       EXCEPT !.value = returned(loop)]
  /\ emitted' = <<>>
  /\ sent' = <<>>
  /\ UNCHANGED <<lifeVars, hasBus, scope, exited, streams, subs, index, secured, pending, sinkVars, bus, ndups>>

\* ------------------------------------------------------------------------
\* broadcast, lines 207-221
\* ------------------------------------------------------------------------
\* lines 208-210
defaultPayload(payload) == IF payload \in Falsy THEN EmptyObject ELSE payload

\* The message is handed to the bus (line 212) before the local fan-out (line
\* 218); when the fan-out throws, broadcast throws and line 220 is not reached.
Broadcast(i, channel, payload) ==
  /\ canBroadcastOn(i, channel)
  /\ payload \in scope.payloads
  /\ ncalls' = ncalls + 1
  /\ nbroadcasts' = nbroadcasts + 1
  /\ \E order \in Orders(findByChannel(i, channel)) :
       LET p == defaultPayload(payload)
           call == Call(i, nbroadcasts + 1)
           out == <<BroadcastMessage(channel, p, call)>>
           loop == broadcastLocally(i, order, channel, p, Undefined, call)
       IN /\ sent' = busPublish(i, out)
          /\ bus' = busAfterPublish(bus, i, out)
          /\ sinksWritten(i, loop.sinks)
          /\ emitted' = IF loop.threw THEN <<>> ELSE <<Event("broadcast", NoUid, channel, p)>>
          /\ ret' = [RetFanOut("broadcast", i, channel, p, call, Undefined)
                       EXCEPT !.given = payload, !.value = returned(loop)]
  /\ UNCHANGED <<lifeVars, hasBus, scope, exited, streams, subs, index, secured, pending, sinkVars, ndups>>

\* ------------------------------------------------------------------------
\* the handler of the transport channel, lines 84-94
\* ------------------------------------------------------------------------
busOp(type) ==
  IF type = TransportMessageType.Broadcast THEN "bus:Broadcast"
  ELSE IF type = TransportMessageType.Subscribe THEN "bus:Subscribe"
  ELSE "bus:Unsubscribe"

\* what the handler returns to the bus for message m: nothing, unless the
\* fan-out threw
RetBus(i, m, value) ==
  [Ret(busOp(m.type), i, m.payload.uid, m.channel, value)
     EXCEPT !.payload = m.payload.data, !.call = m.call]

\* a handler that replays a Broadcast through broadcast(): it publishes again
onBusMessage_viaBroadcast(i, m, order) ==
  IF m.type = TransportMessageType.Broadcast
  THEN LET loop == broadcastLocally(i, order, m.channel, m.payload.data, Undefined, m.call)
       IN /\ sinksWritten(i, loop.sinks)
          /\ UNCHANGED managerVars
          /\ emitted' = IF loop.threw THEN <<>>
                        ELSE <<Event("broadcast", NoUid, m.channel, m.payload.data)>>
          /\ sent' = busPublish(i, <<m>>)
          /\ ret' = RetBus(i, m, returned(loop))
  ELSE /\ IF m.type = TransportMessageType.Subscribe
          THEN subscribeLocally(i, m.payload.uid, m.channel)
          ELSE unsubscribeLocally(i, m.payload.uid, m.channel)
       /\ sinksWritten(i, written[i])
       /\ emitted' = <<>>
       /\ sent' = <<>>
       /\ ret' = RetBus(i, m, "void")

\* a handler that replays a Subscribe through subscribe(): onSubscribe runs
onBusMessage_viaSubscribe(i, m, order) ==
  IF m.type = TransportMessageType.Broadcast
  THEN LET loop == broadcastLocally(i, order, m.channel, m.payload.data, Undefined, m.call)
       IN /\ sinksWritten(i, loop.sinks)
          /\ UNCHANGED managerVars
          /\ emitted' = <<>>
          /\ sent' = <<>>
          /\ ret' = RetBus(i, m, returned(loop))
  ELSE IF m.type = TransportMessageType.Subscribe
  THEN /\ subscribeLocally(i, m.payload.uid, m.channel)
       /\ sinksWritten(i, written[i])
       /\ emitted' = IF m.payload.uid \in streams[i]
                     THEN <<Event("subscribe", m.payload.uid, m.channel, NoPayload)>>
                     ELSE <<>>
       /\ sent' = IF m.payload.uid \in streams[i]
                  THEN busPublish(i, <<SubscribeMessage(m.channel, m.payload.uid)>>)
                  ELSE <<>>
       /\ ret' = RetBus(i, m, "void")
  ELSE /\ unsubscribeLocally(i, m.payload.uid, m.channel)
       /\ sinksWritten(i, written[i])
       /\ emitted' = <<>>
       /\ sent' = <<>>
       /\ ret' = RetBus(i, m, "void")

\* the callback given to #bus.subscribe, lines 84-94: what #broadcastLocally
\* throws leaves the callback; order is the order in which findByChannel
\* yields the subscribers of a Broadcast
onBusMessage(i, m, order) ==
  /\ IF m.type = TransportMessageType.Broadcast
     THEN LET loop == broadcastLocally(i, order, m.channel, m.payload.data, Undefined, m.call)
          IN /\ sinksWritten(i, loop.sinks)
             /\ UNCHANGED managerVars
             /\ ret' = RetBus(i, m, returned(loop))
     ELSE /\ IF m.type = TransportMessageType.Subscribe
             THEN subscribeLocally(i, m.payload.uid, m.channel)
             ELSE IF m.type = TransportMessageType.Unsubscribe
             THEN unsubscribeLocally(i, m.payload.uid, m.channel)
             ELSE UNCHANGED managerVars
          /\ sinksWritten(i, written[i])
          /\ ret' = RetBus(i, m, "void")
  /\ emitted' = <<>>
  /\ sent' = <<>>

\* the streams the handler of i visits for message m
visited(i, m) ==
  IF m.type = TransportMessageType.Broadcast THEN findByChannel(i, m.channel) ELSE {}

\* The bus hands message m to instance i, which runs its handler; with again,
\* the bus keeps the message and hands it over once more later (at-least-once
\* delivery), which counts as an environment event.
BusDeliver(i, m, again) ==
  /\ alive(i)
  /\ BagIn(m, bus[i])
  /\ IF again THEN /\ scope.duplicates
                   /\ ncalls < scope.budget
                   /\ ncalls' = ncalls + 1
                   /\ ndups' = ndups + 1
              ELSE ncalls' = ncalls /\ ndups' = ndups
  /\ \E order \in Orders(visited(i, m)) :
       /\ onBusMessage(i, m, order)
       /\ bus' = busAfterPublish(IF again THEN bus
                                          ELSE [bus EXCEPT ![i] = @ (-) SetToBag({m})],
                                 i, sent')
  /\ UNCHANGED <<lifeVars, hasBus, scope, exited, secured, pending, sinkVars, nbroadcasts>>

\* ------------------------------------------------------------------------
\* the environment: the sink of a live stream starts to fail; thrown tells
\* whether writeMessage throws the failure or the stream catches it
\* ------------------------------------------------------------------------
SinkFails(i, u, thrown) ==
  /\ canCall(i)
  /\ i \in scope.faulty
  /\ ncalls' = ncalls + 1
  /\ u \in streams[i] \ broken[i]
  /\ broken' = [broken EXCEPT ![i] = @ \cup {u}]
  /\ raising' = [raising EXCEPT ![i] = IF thrown THEN @ \cup {u} ELSE @]
  /\ emitted' = <<>>
  /\ sent' = <<>>
  /\ ret' = Ret("sinkFails", i, u, NoChannel, "void")
  /\ UNCHANGED <<lifeVars, hasBus, scope, exited, streams, subs, index, secured, pending, doomed, bus,
                 written, nbroadcasts, ndups>>

\* ------------------------------------------------------------------------
\* the keepalive, lines 96-104 and 238-242
\* ------------------------------------------------------------------------
\* line 240
PingMessage == DataMessage(PingChannel, EmptyObject, NoCall)

\* the loop of lines 239-241 over the live streams still to visit: nothing in
\* it catches, so a write that throws ends it
RECURSIVE pingAll(_, _, _, _)
pingAll(w, subscribers, failing, throwers) ==
  IF subscribers = <<>> THEN Loop(w, FALSE)
  ELSE LET stream == Head(subscribers)
           after == [w EXCEPT ![stream] = writeMessage(@, stream \in failing, PingMessage)]
       IN IF writeThrows(stream, throwers)
          THEN Loop(after, TRUE)
          ELSE pingAll(after, Tail(subscribers), failing, throwers)

\* The timer set at line 103 fires; getAllSubscribers yields the live
\* streams in some order.  What #ping throws leaves the
\* timer callback uncaught: the process of the instance exits, unless the
\* application handles uncaught exceptions.
Ping(i, handled) ==
  /\ interval[i]
  /\ canCall(i)
  /\ ncalls' = ncalls + 1
  /\ \E order \in Orders({e[1] : e \in getAllSubscribers(i)}) :
       LET loop == pingAll(written[i], order, broken[i], raising[i])
       IN /\ sinksWritten(i, loop.sinks)
          /\ ret' = Ret("ping", i, NoUid, PingChannel, returned(loop))
          /\ IF loop.threw
             THEN exited' = (IF handled THEN exited ELSE exited \cup {i})
             ELSE handled /\ exited' = exited
  /\ emitted' = <<>>
  /\ sent' = <<>>
  /\ UNCHANGED <<lifeVars, hasBus, scope, streams, subs, index, secured, pending, sinkVars,
                 bus, nbroadcasts, ndups>>

\* ------------------------------------------------------------------------
\* shutdown, lines 230-236
\* ------------------------------------------------------------------------
\* what the bus still holds for the instances once the adapter of i has been
\* told to disconnect: nothing more is handed to i
busAfterDisconnect(b, i) == [b EXCEPT ![i] = EmptyBag]

\* how the awaited #bus?.disconnect() can end: without a bus there is nothing
\* that can reject
Outcomes(i) == IF hasBus[i] THEN {"void", "rejected"} ELSE {"void"}

\* the call, up to the await of line 235: the timer is cleared and
\* disconnect() is called
Shutdown(i) ==
  /\ canCall(i)
  /\ i \in scope.stoppers
  /\ ncalls' = ncalls + 1
  /\ interval' = [interval EXCEPT ![i] = FALSE]
  /\ disconnects' = [disconnects EXCEPT ![i] = IF hasBus[i] THEN @ + 1 ELSE @]
  /\ closing' = [closing EXCEPT ![i] = @ + 1]
  /\ closed' = closed
  /\ bus' = busAfterDisconnect(bus, i)
  /\ emitted' = <<>>
  /\ sent' = <<>>
  /\ ret' = Ret("shutdown", i, NoUid, NoChannel, "awaiting")
  /\ UNCHANGED <<hasBus, scope, exited, streams, subs, index, secured, pending, sinkVars, doomed, written,
                 nbroadcasts, ndups>>

\* the awaited disconnect has settled: the call completes, or rejects with
\* what disconnect() rejected with
ShutdownSettle(i, outcome) ==
  /\ alive(i)
  /\ closing[i] > 0
  /\ outcome \in Outcomes(i)
  /\ closing' = [closing EXCEPT ![i] = @ - 1]
  /\ closed' = [closed EXCEPT ![i] = IF outcome = "void" THEN @ + 1 ELSE @]
  /\ emitted' = <<>>
  /\ sent' = <<>>
  /\ ret' = Ret("shutdown", i, NoUid, NoChannel, outcome)
  /\ UNCHANGED <<interval, disconnects, hasBus, scope, exited, streams, subs, index, secured, pending,
                 sinkVars, doomed, bus, written, ncalls, nbroadcasts, ndups>>

BusMessages == UNION {BagToSet(bus[i]) : i \in Instances}
Pendings == UNION {BagToSet(pending[i]) : i \in Instances}

Next ==
  \/ \E i \in Instances, u \in Uids : CreateStream(i, u)
  \/ \E i \in Instances, u \in Uids : Disconnect(i, u)
  \/ \E i \in Instances, pattern \in Patterns : Authorize(i, pattern)
  \/ \E i \in Instances, u \in Uids, c \in Channels : Subscribe(i, u, c)
  \/ \E i \in Instances, p \in Pendings, verdict \in Verdicts : SubscribeResolve(i, p, verdict)
  \/ \E i \in Instances, u \in Uids, c \in Channels : Unsubscribe(i, u, c)
  \/ \E i \in Instances, c \in Channels, p \in Payloads : Broadcast(i, c, p)
  \/ \E i \in Instances, c \in Channels, p \in ExceptPayloads, x \in SenderUids :
       BroadcastExcept(i, c, p, x)
  \/ \E i \in Instances, m \in BusMessages, again \in BOOLEAN : BusDeliver(i, m, again)
  \/ \E i \in Instances, u \in Uids, thrown \in BOOLEAN : SinkFails(i, u, thrown)
  \/ \E i \in Instances, handled \in BOOLEAN : Ping(i, handled)
  \/ \E i \in Instances : Shutdown(i)
  \/ \E i \in Instances, outcome \in {"void", "rejected"} : ShutdownSettle(i, outcome)

Spec == Init /\ [][Next]_vars

\* ------------------------------------------------------------------------
\* The bus delivers: every message it holds is eventually handed over
\* (at-least-once delivery with a retry queue, line 80).
\* ------------------------------------------------------------------------
InitLive == InitOf(Shared(MaxCalls)) \/ InitOf(Keepalive(MaxCalls))

Delivery == \E i \in Instances, m \in BusMessages, again \in BOOLEAN : BusDeliver(i, m, again)

\* a failed write closes the sink, which runs the stream's disconnect observer
Closing == \E i \in Instances, u \in Uids : u \in doomed[i] /\ Disconnect(i, u)

FairSpec == InitLive /\ [][Next]_vars /\ WF_vars(Delivery) /\ WF_vars(Closing)

\* ------------------------------------------------------------------------
\* Properties
\* ------------------------------------------------------------------------
\* the broadcast calls made so far
Calls == {Call(i, n) : i \in Instances, n \in 1..nbroadcasts}

\* the writeMessage calls on the stream of u on i that stem from broadcast call k
WritesOf(i, u, k) == Cardinality({x \in 1..Len(written[i][u]) : written[i][u][x].call = k})

\* the stream of u on i was written, by call k, the message {channel: c, payload: p}
Wrote(i, u, c, p, k) ==
  \E x \in 1..Len(written[i][u]) :
    /\ written[i][u][x].call = k
    /\ written[i][u][x].channel = c
    /\ written[i][u][x].payload = p

allShareBus == \A i \in Instances : hasBus[i]

\* C1: handling a Broadcast message received from the bus publishes nothing:
\* the handler hands nothing to the bus, no Broadcast message ever comes back
\* to the instance whose broadcast call it stems from, the bus never holds two
\* copies of it for one instance, and the broadcast call itself publishes
\* exactly one message.
C1_NoReflection ==
  /\ ret.op = "bus:Broadcast" => sent = <<>>
  /\ \A i \in Instances : \A m \in BagToSet(bus[i]) :
       m.type = TransportMessageType.Broadcast =>
         CopiesIn(m, bus[i]) = 1 /\ m.call.inst # i
  /\ ret.op = "broadcast" /\ hasBus[ret.inst] =>
       /\ Len(sent) = 1
       /\ sent[1].type = TransportMessageType.Broadcast
       /\ sent[1].call = Call(ret.inst, nbroadcasts)

\* C1 witness: an instance handled a Broadcast from the bus and fanned it out
\* to a local subscriber.
C1_Witness ==
  /\ ret.op = "bus:Broadcast"
  /\ \E u \in Uids, k \in Calls : k.inst # ret.inst /\ WritesOf(ret.inst, u, k) = 1

Excluded(senderUid) == IF senderUid.isArray THEN senderUid.uids ELSE {senderUid.uid}

C5_Disconnect ==
  /\ [](\A i \in Instances, u \in Uids :
          u \notin streams[i] => \A c \in Channels : u \notin findByChannel(i, c))
  /\ [][\A i \in Instances, u \in Uids :
          u \notin streams[i] => written'[i][u] = written[i][u]]_vars

\* C5 witness: a stream that had been written a broadcast on a channel is
\* disconnected, and a Broadcast replayed from the bus has been fanned out on
\* that channel of its instance since.
C5_Witness ==
  /\ ret.op = "bus:Broadcast"
  /\ \E u \in Uids :
       /\ u \notin streams[ret.inst]
       /\ Len(written[ret.inst][u]) = 1
       /\ written[ret.inst][u][1].channel = ret.channel

C7_AuthorizationDenied ==
  [][ret'.op = "subscribe" /\ ret'.verdict \in {"false", "reject"} =>
       /\ ret'.value = "false"
       /\ emitted' = <<>>
       /\ sent' = <<>>
       /\ index' = index
       /\ subs' = subs
       /\ bus' = bus]_vars

\* C7 witness: the predicate rejected the subscribe of a live stream, which is
\* not indexed for the channel.
C7_Witness ==
  /\ ret.op = "subscribe" /\ ret.verdict = "reject" /\ ret.value = "false"
  /\ ret.uid \in streams[ret.inst]
  /\ ret.uid \notin findByChannel(ret.inst, ret.channel)

\* C8: a subscribe to a channel no registered pattern matches returns true for
\* a uid with a live stream, which is then indexed for the channel; a
\* subscribe for a uid with no live stream returns false and changes nothing.
C8_AllowByDefault ==
  [][ret'.op = "subscribe" =>
       /\ (matchingPatterns(ret'.inst, ret'.channel) = {} /\ ret'.uid \in streams[ret'.inst]) =>
            /\ ret'.value = "true"
            /\ ret'.uid \in index'[ret'.inst][ret'.channel]
            /\ ret'.channel \in subs'[ret'.inst][ret'.uid]
       /\ ret'.uid \notin streams[ret'.inst] =>
            /\ ret'.value = "false"
            /\ index' = index
            /\ subs' = subs]_vars

\* C8 witness: a live stream was subscribed to a channel that no pattern of
\* its instance matches, on an instance that has a pattern registered.
C8_Witness ==
  /\ ret.op = "subscribe" /\ ret.value = "true" /\ ret.verdict = "none"
  /\ secured[ret.inst] # {}
  /\ matchingPatterns(ret.inst, ret.channel) = {}
  /\ ret.uid \in findByChannel(ret.inst, ret.channel)

\* C9: createStream for a uid that has a live stream fails with DuplicateStream,
\* emits nothing, and leaves the registry, the subscription sets and the
\* channel index as they were.
C9_DuplicateStream ==
  [][ret'.op = "createStream" /\ ret'.uid \in streams[ret'.inst] =>
       /\ ret'.value = "DuplicateStream"
       /\ emitted' = <<>>
       /\ streams' = streams
       /\ subs' = subs
       /\ index' = index]_vars

\* C9 witness: createStream failed for a uid whose stream holds a subscription.
C9_Witness ==
  /\ ret.op = "createStream" /\ ret.value = "DuplicateStream"
  /\ ret.uid \in streams[ret.inst]
  /\ subs[ret.inst][ret.uid] # {}

\* C10: a uid is returned by findByChannel(C) exactly when getAllSubscribers
\* lists a live stream of that uid whose subscription set contains C.
C10_IndexConsistency ==
  \A i \in Instances, c \in Channels, u \in Uids :
    u \in findByChannel(i, c) <=> (\E e \in getAllSubscribers(i) : e[1] = u /\ c \in e[2])

\* C10 witness: a Subscribe replayed from the bus indexed a live stream of the
\* instance.
C10_Witness ==
  /\ ret.op = "bus:Subscribe"
  /\ ret.uid \in findByChannel(ret.inst, ret.channel)
  /\ ret.channel \in subs[ret.inst][ret.uid]

\* C11: once a shutdown() of an instance has cleared the timer, and so once
\* it has completed, its ping timer never fires again; shutdown() of an
\* instance without a bus never rejects; and however often shutdown() is
\* called the bus adapter is disconnected at most once.
C11_ShutdownIdempotent ==
  /\ ret.op = "ping" => closing[ret.inst] = 0 /\ closed[ret.inst] = 0
  /\ \A i \in Instances : closed[i] > 0 => ~interval[i]
  /\ ret.op = "shutdown" /\ ~hasBus[ret.inst] => ret.value \in {"awaiting", "void"}
  /\ \A i \in Instances : disconnects[i] <= 1

\* the awaited subscribe call p of instance i resolves in this step
resolves(i, p) == CopiesIn(p, pending'[i]) < CopiesIn(p, pending[i])

\* C12 as stated: a subscribe whose predicate resolves after a disconnect of
\* its uid has completed returns false, emits nothing, publishes nothing, and
\* leaves the channel index without any entry for the uid.
C12_AfterDisconnect ==
  [][\A i \in Instances : \A p \in BagToSet(pending[i]) :
       (p.overtaken /\ resolves(i, p)) =>
         /\ ret'.value = "false"
         /\ emitted' = <<>>
         /\ sent' = <<>>
         /\ \A c \in Channels : p.uid \notin index'[i][c]]_vars

\* C12, amended: a subscribe whose predicate resolves when the uid has no
\* live stream (its stream was disconnected and the uid has not connected
\* again) returns false, emits nothing, publishes nothing and indexes
\* nothing; a disconnect leaves no index entry of its uid behind; so once a
\* subscribe and a disconnect of one uid have both completed, in either
\* order, the channel index holds no entry for the uid unless it has
\* connected again in the meantime.
C12_SubscribeDisconnectRace ==
  /\ [][(ret'.op = "subscribe" /\ ret'.verdict # "none" /\ ret'.uid \notin streams[ret'.inst]) =>
         /\ ret'.value = "false"
         /\ emitted' = <<>>
         /\ sent' = <<>>
         /\ bus' = bus
         /\ index' = index
         /\ subs' = subs]_vars
  /\ [][ret'.op = "disconnect" =>
         \A c \in Channels : ret'.uid \notin index'[ret'.inst][c]]_vars
  /\ [](\A i \in Instances, u \in Uids :
          (u \notin streams[i] /\ ~(\E p \in BagToSet(pending[i]) : p.uid = u)) =>
            \A c \in Channels : u \notin index[i][c])

\* C12 witness: the predicate allowed a subscribe whose stream had been
\* disconnected while it was awaited; the call returned false.
C12_Witness ==
  /\ ret.op = "subscribe" /\ ret.verdict = "true" /\ ret.value = "false"
  /\ ret.uid \notin streams[ret.inst]
  /\ \A c \in Channels : ret.uid \notin index[ret.inst][c]

\* C13: handling a Subscribe or Unsubscribe message from the bus on an
\* instance where the uid has no live stream changes neither the stream
\* registry, nor the subscription sets, nor the channel index, and writes to
\* no stream.
C13_ReplayWithoutStream ==
  [][(ret'.op \in {"bus:Subscribe", "bus:Unsubscribe"} /\ ret'.uid \notin streams[ret'.inst]) =>
       /\ streams' = streams
       /\ subs' = subs
       /\ index' = index
       /\ written' = written]_vars

\* C13 witness: an instance handled the Subscribe of a uid that is live and
\* subscribed on the other instance and has no stream here.
C13_Witness ==
  /\ ret.op = "bus:Subscribe"
  /\ ret.uid \notin streams[ret.inst]
  /\ \E j \in Instances \ {ret.inst} : ret.uid \in findByChannel(j, ret.channel)
  /\ ret.uid \notin findByChannel(ret.inst, ret.channel)

\* C14: a live stream of instance I becomes indexed for a channel only by a
\* subscribe call made on I that I allowed: its predicate answered true, or no
\* pattern registered on I matches the channel.  In particular no message
\* from the bus adds an index entry for a live stream.
C14_CanonicalAuthorization ==
  [][\A i \in Instances, u \in Uids, c \in Channels :
       (u \in streams'[i] /\ u \in index'[i][c] /\ u \notin index[i][c]) =>
         /\ ret'.op = "subscribe" /\ ret'.value = "true"
         /\ ret'.inst = i /\ ret'.uid = u /\ ret'.channel = c
         /\ (ret'.verdict = "true" \/ matchingPatterns(i, c) = {})]_vars

\* the lifecycle events of kind e emitted by the last step
EmittedOf(e) == SelectSeq(emitted, LAMBDA x : x.event = e)

isPing(i, u, x) ==
  /\ written[i][u][x].channel = PingChannel
  /\ written[i][u][x].payload = EmptyObject

C17_Unsubscribe ==
  [][ret'.op = "unsubscribe" =>
       LET i == ret'.inst
           u == ret'.uid
           c == ret'.channel
       IN IF u \in streams[i] /\ u \in index[i][c]
          THEN /\ ret'.value = "true"
               /\ emitted' = <<Event("unsubscribe", u, c, NoPayload)>>
               /\ sent' = IF hasBus[i] THEN <<UnsubscribeMessage(c, u)>> ELSE <<>>
               /\ index' = [index EXCEPT ![i][c] = @ \ {u}]
               /\ subs' = [subs EXCEPT ![i][u] = @ \ {c}]
          ELSE /\ ret'.value = "false"
               /\ emitted' = <<>>
               /\ sent' = <<>>
               /\ bus' = bus
               /\ index' = index
               /\ subs' = subs]_vars

\* C17 witness: an unsubscribe removed a mapping and its Unsubscribe message
\* is on its way to the other instance.
C17_Witness ==
  /\ ret.op = "unsubscribe" /\ ret.value = "true"
  /\ Len(sent) = 1
  /\ \E j \in Instances \ {ret.inst} : BagIn(UnsubscribeMessage(ret.channel, ret.uid), bus[j])
  /\ ret.uid \notin findByChannel(ret.inst, ret.channel)

C19_PayloadFidelity ==
  ret.op = "broadcast" =>
    LET p == IF ret.given = "undefined" THEN EmptyObject ELSE ret.given
    IN /\ \A u \in findByChannel(ret.inst, ret.channel) :
            Wrote(ret.inst, u, ret.channel, p, ret.call)
       /\ hasBus[ret.inst] => Len(sent) = 1 /\ sent[1].payload.data = p

\* the message types that replicate subscriptions
SubscriptionTypes == {TransportMessageType.Subscribe, TransportMessageType.Unsubscribe}

\* the direct call that publishes a message of the type
opOf(type) == IF type = TransportMessageType.Subscribe THEN "subscribe" ELSE "unsubscribe"

\* the bus holds no Subscribe or Unsubscribe message any more
noSubscriptionInFlight ==
  \A i \in Instances : \A m \in BagToSet(bus[i]) : m.type \notin SubscriptionTypes

\* C20: the bus gains a copy of a Subscribe or Unsubscribe message only in the
\* step of a direct subscribe or unsubscribe call of another instance for
\* that uid and channel which returned true, and that call handed exactly
\* that one message to the bus; handling a Subscribe or Unsubscribe from the
\* bus publishes nothing, emits nothing and adds nothing to the bus; so the
\* bus eventually holds no such message for good.
C20_ReplicationAccounting ==
  /\ [][\A j \in Instances : \A m \in BagToSet(bus'[j]) :
         (m.type \in SubscriptionTypes /\ CopiesIn(m, bus'[j]) > CopiesIn(m, bus[j])) =>
           /\ ret'.op = opOf(m.type) /\ ret'.value = "true"
           /\ ret'.inst # j /\ ret'.uid = m.payload.uid /\ ret'.channel = m.channel
           /\ sent' = <<m>>
           /\ CopiesIn(m, bus'[j]) = CopiesIn(m, bus[j]) + 1]_vars
  /\ [](ret.op \in {"subscribe", "unsubscribe"} =>
          Len(sent) = (IF ret.value = "true" /\ hasBus[ret.inst] THEN 1 ELSE 0))
  /\ [](ret.op \in {"bus:Subscribe", "bus:Unsubscribe"} => sent = <<>> /\ emitted = <<>>)
  /\ [][ret'.op \in {"bus:Subscribe", "bus:Unsubscribe"} =>
         \A j \in Instances : \A m \in BagToSet(bus'[j]) :
           CopiesIn(m, bus'[j]) <= CopiesIn(m, bus[j])]_vars
  /\ <>[]noSubscriptionInFlight

\* C20 witness: an instance handled the Unsubscribe of a uid that is live
\* there too, after which the bus holds nothing.
C20_Witness ==
  /\ ret.op = "bus:Unsubscribe"
  /\ \A i \in Instances : ret.uid \in streams[i] /\ bus[i] = EmptyBag
  /\ ret.uid \notin findByChannel(ret.inst, ret.channel)
====
